---------------------------- MODULE Spec2Model ----------------------------
(***************************************************************************)
(* A model of wordle_helper.py: Word, WordList, Mask, solve_wordle,        *)
(* solve_all_wordles and the interactive prompt.                           *)
(*                                                                         *)
(* A Word is the tuple of its five letters.  A WordList is the sequence of *)
(* its Words (its letter_frequency is a function of its content, computed  *)
(* at construction and never changed, so it is derived here).  A Mask is a *)
(* record of its five attributes; Masks are objects, so the variable       *)
(* `masks` is a list of objects and an operation that writes into an       *)
(* operand's dict changes the list's element.                              *)
(***************************************************************************)
EXTENDS Integers, Sequences, FiniteSets, TLC

VARIABLES
    words,          \* the vocabulary WordList (all_words / the prompt's words)
    masks,          \* the list of Mask objects (solve's masks, the prompt's masks)
    target_word,    \* solve_wordle: target_word (the scorer's self)
    starting_word,  \* solve_wordle: starting_word, or None
    guess_word,     \* solve_wordle: guess_word (the scorer's guessed_word)
    guess_results,  \* solve_wordle: guess_results
    possible_words, \* solve_wordle: possible_words
    info_words,     \* solve_wordle: info_words
    num_guesses,    \* solve_wordle: num_guesses
    results,        \* solve_all_wordles: results, word -> number of guesses
    pc,             \* the position of the running function
    last            \* the last operation: its name, operands and outcome

vars == <<words, masks, target_word, starting_word, guess_word, guess_results,
          possible_words, info_words, num_guesses, results, pc, last>>

\* Python's None, where an exception or a word or a list of marks is expected
None == "None"

\* None where a Mask is expected
NoMask == [none |-> TRUE]

\* None where a Word, a list of marks or a WordList is expected
NoWord == <<>>

---------------------------------------------------------------------------
(* Word *)

WORD_LEN == 5

Letters == {"a", "b", "c"}

Positions == 1..WORD_LEN

\* every five-letter word over Letters
AllWords == [Positions -> Letters]

\* Word.letters
WordLetters(word) == {word[p] : p \in DOMAIN word}

\* Word.letter_counts[letter] (str.count)
LetterCount(word, letter) == Cardinality({p \in DOMAIN word : word[p] = letter})

\* letter in word (Word.__contains__)
WordContains(word, letter) == letter \in WordLetters(word)

\* dict.get(key, default)
DictGet(dict, key, default) == IF key \in DOMAIN dict THEN dict[key] ELSE default

\* dict[key] = value
DictSet(dict, key, value) == [k \in DOMAIN dict \cup {key} |-> IF k = key THEN value ELSE dict[k]]

\* name = expression: the expression is evaluated once and the statements
\* that follow, F, read its value
Bind(expression, F(_)) == CHOOSE r \in {F(x) : x \in {y \in {expression} : y = y}} : TRUE

\* the empty dict
EmptyDict == [k \in {} |-> 0]

\* set(dict.values())
DictValues(dict) == {dict[k] : k \in DOMAIN dict}

---------------------------------------------------------------------------
(* Word.calculate_guess_results *)

\* a mutant of ScoreLetter: a green match does not use up an occurrence
ScoreLetterGreenFree(self, position, letter, used_counts) ==
    IF WordContains(self, letter)
    THEN IF self[position] = letter
         THEN [mark |-> "g", used |-> used_counts]
         ELSE [mark |-> IF DictGet(used_counts, letter, 0) < LetterCount(self, letter)
                        THEN "y" ELSE "b",
               used |-> DictSet(used_counts, letter, DictGet(used_counts, letter, 0) + 1)]
    ELSE [mark |-> "b", used |-> used_counts]

\* the body of the loop: the mark of one slot and used_counts after it
ScoreLetter(self, position, letter, used_counts) ==
    IF WordContains(self, letter)
    THEN [mark |-> IF self[position] = letter
                   THEN "g"
                   ELSE IF DictGet(used_counts, letter, 0) < LetterCount(self, letter)
                        THEN "y"
                        ELSE "b",
          used |-> DictSet(used_counts, letter, DictGet(used_counts, letter, 0) + 1)]
    ELSE [mark |-> "b", used |-> used_counts]

RECURSIVE ScoreLoop(_, _, _, _, _)
\* for position, letter in guessed_word.positions.items()
ScoreLoop(self, guessed_word, position, used_counts, res) ==
    IF position > Len(guessed_word)
    THEN res
    ELSE LET step == ScoreLetter(self, position, guessed_word[position], used_counts)
         IN  ScoreLoop(self, guessed_word, position + 1, step.used, Append(res, step.mark))

calculate_guess_results(self, guessed_word) ==
    ScoreLoop(self, guessed_word, 1, EmptyDict, <<>>)

---------------------------------------------------------------------------
(* Mask *)

\* Mask.__init__: empty sets of incorrect_positions are dropped and
\* correct_letters is computed, once, from the two position dicts
Mask(correct_positions, incorrect_positions, incorrect_globals, max_occurrences) ==
    LET kept == [p \in {q \in DOMAIN incorrect_positions : incorrect_positions[q] # {}}
                    |-> incorrect_positions[p]]
    IN  [correct_positions   |-> correct_positions,
         incorrect_positions |-> kept,
         incorrect_globals   |-> incorrect_globals,
         max_occurrences     |-> max_occurrences,
         correct_letters     |-> DictValues(correct_positions)
                                 \cup UNION {kept[p] : p \in DOMAIN kept}]

\* Mask()
EmptyMask == Mask(EmptyDict, EmptyDict, {}, EmptyDict)

\* str.lower, on the characters the model uses
Lower(char) ==
    CASE char = "A" -> "a"
      [] char = "B" -> "b"
      [] char = "C" -> "c"
      [] char = "G" -> "g"
      [] char = "Y" -> "y"
      [] OTHER -> char

LowerAll(chars) == [i \in DOMAIN chars |-> Lower(chars[i])]

\* a mutant of BlackSlot: the cap counts every occurrence of the letter
BlackSlotCapAll(guessed_word, wordle_results, guess_letter, acc) ==
    LET indices == {i \in DOMAIN guessed_word : guessed_word[i] = guess_letter}
    IN  IF Cardinality(indices) = 1 \/ \A i \in indices : wordle_results[i] = "b"
        THEN [acc EXCEPT !.ig = @ \cup {guess_letter}]
        ELSE [acc EXCEPT !.mo = DictSet(@, guess_letter, Cardinality(indices))]

\* a mutant of BlackSlot: a black mark always bans the letter
BlackSlotAlwaysBan(guessed_word, wordle_results, guess_letter, acc) ==
    [acc EXCEPT !.ig = @ \cup {guess_letter}]

\* the branch `elif result == "b"` of the loop of from_wordle_results.
\* wordle_results has WORD_LEN marks; guessed_word may be longer, and
\* reading the mark of a slot past the last one raises IndexError
BlackSlot(guessed_word, wordle_results, guess_letter, acc) ==
    LET indices == {i \in DOMAIN guessed_word : guessed_word[i] = guess_letter}
        inside  == {i \in indices : i <= Len(wordle_results)}
        outside == indices \ inside
    IN  IF Cardinality(indices) = 1
        THEN [acc EXCEPT !.ig = @ \cup {guess_letter}]
        ELSE IF \E i \in inside : wordle_results[i] # "b"
        THEN \* not every occurrence is black: cap the letter
             IF guess_letter \in DOMAIN acc.mo
             THEN acc
             ELSE IF outside # {}
             THEN [acc EXCEPT !.raised = "IndexError"]
             ELSE [acc EXCEPT !.mo = DictSet(@, guess_letter,
                      Cardinality({i \in indices : wordle_results[i] # "b"}))]
        ELSE IF outside # {}
        THEN [acc EXCEPT !.raised = "IndexError"]
        ELSE [acc EXCEPT !.ig = @ \cup {guess_letter}]

RECURSIVE FromLoop(_, _, _, _)
\* for index in range(1, 6)
FromLoop(guessed_word, wordle_results, index, acc) ==
    IF index > WORD_LEN \/ acc.raised # None
    THEN acc
    ELSE IF index > Len(guessed_word)
    THEN [acc EXCEPT !.raised = "IndexError"]
    ELSE LET guess_letter == guessed_word[index]
             result == wordle_results[index]
         IN  FromLoop(guessed_word, wordle_results, index + 1,
                CASE result = "g" -> [acc EXCEPT !.cp = DictSet(@, index, guess_letter)]
                  [] result = "y" -> [acc EXCEPT !.ip[index] = @ \cup {guess_letter}]
                  [] result = "b" -> BlackSlot(guessed_word, wordle_results, guess_letter, acc)
                  [] OTHER        -> [acc EXCEPT !.raised = "ValueError"])

\* Mask.from_wordle_results: [raised, mask]; no Mask when it raises
from_wordle_results(guessed_word_in, wordle_results_in) ==
    LET guessed_word   == LowerAll(guessed_word_in)
        wordle_results == LowerAll(wordle_results_in)
    IN  IF Len(wordle_results) # WORD_LEN
        THEN [raised |-> "ValueError", mask |-> NoMask]
        ELSE IF {wordle_results[i] : i \in DOMAIN wordle_results} \ {"g", "y", "b"} # {}
        THEN [raised |-> "ValueError", mask |-> NoMask]
        ELSE LET acc == FromLoop(guessed_word, wordle_results, 1,
                            [raised |-> None,
                             cp |-> EmptyDict,
                             ip |-> [i \in Positions |-> {}],
                             ig |-> {},
                             mo |-> EmptyDict])
             IN  IF acc.raised # None
                 THEN [raised |-> acc.raised, mask |-> NoMask]
                 ELSE [raised |-> None, mask |-> Mask(acc.cp, acc.ip, acc.ig, acc.mo)]

\* a mutant of AddConflicts: a wanted letter is looked up in one direction only
AddConflictsOneWay(self, other) ==
    LET positions == {pos \in DOMAIN self.correct_positions :
                         /\ pos \in DOMAIN other.correct_positions
                         /\ other.correct_positions[pos] # self.correct_positions[pos]}
        wanted    == DictValues(self.correct_positions) \cap other.incorrect_globals
        counts    == {letter \in DOMAIN self.max_occurrences :
                         /\ letter \in DOMAIN other.max_occurrences
                         /\ other.max_occurrences[letter] # self.max_occurrences[letter]}
    IN  positions # {} \/ wanted # {} \/ counts # {}

\* the three checks of Mask.__add__: does it raise ValueError?
AddConflicts(self, other) ==
    LET positions == {pos \in DOMAIN self.correct_positions :
                         /\ pos \in DOMAIN other.correct_positions
                         /\ other.correct_positions[pos] # self.correct_positions[pos]}
        wanted    == (DictValues(self.correct_positions) \cap other.incorrect_globals)
                     \cup (DictValues(other.correct_positions) \cap self.incorrect_globals)
        counts    == {letter \in DOMAIN self.max_occurrences :
                         /\ letter \in DOMAIN other.max_occurrences
                         /\ other.max_occurrences[letter] # self.max_occurrences[letter]}
    IN  positions # {} \/ wanted # {} \/ counts # {}

\* dict | dict: the right operand's value wins on a common key
DictUnion(left, right) ==
    [k \in DOMAIN left \cup DOMAIN right |-> IF k \in DOMAIN right THEN right[k] ELSE left[k]]

\* incorrect_positions = self.incorrect_positions, then one assignment
\* incorrect_positions[pos] = ... for every pos of other.incorrect_positions
AddedPositions(self, other) ==
    [pos \in DOMAIN self.incorrect_positions \cup DOMAIN other.incorrect_positions |->
        IF pos \in DOMAIN other.incorrect_positions
        THEN DictGet(self.incorrect_positions, pos, {}) \cup other.incorrect_positions[pos]
        ELSE self.incorrect_positions[pos]]

\* a mutant of AddSelfAfter: __add__ works on a copy of self.incorrect_positions
AddSelfAfterCopy(self, other) == self

\* self after self + other returned: the local name incorrect_positions is
\* self's own dict, so the assignments are made in self (correct_letters,
\* computed in __init__, stays as it was)
AddSelfAfter(self, other) ==
    [self EXCEPT !.incorrect_positions = AddedPositions(self, other)]

\* the Mask that self + other returns when it does not raise
AddResult(self, other) ==
    Mask(DictUnion(self.correct_positions, other.correct_positions),
         AddedPositions(self, other),
         self.incorrect_globals \cup other.incorrect_globals,
         DictUnion(self.max_occurrences, other.max_occurrences))

\* Mask.__add__: [raised, result, self_after]
Mask_add(self, other) ==
    IF AddConflicts(self, other)
    THEN [raised |-> "ValueError", result |-> NoMask, self_after |-> self]
    ELSE [raised |-> None,
          result |-> AddResult(self, other),
          self_after |-> AddSelfAfter(self, other)]

\* a mutant of info_guess_version: a slot that was green gets the yellow
\* letters of its own slot only
info_guess_version_own_slot(self) ==
    Mask(EmptyDict,
         DictUnion(self.incorrect_positions,
                   [position \in DOMAIN self.correct_positions |->
                       DictGet(self.incorrect_positions, position, {})]),
         self.incorrect_globals \cup DictValues(self.correct_positions),
         EmptyDict)

\* Mask.info_guess_version
info_guess_version(self) ==
    LET yellows == UNION {self.incorrect_positions[p] : p \in DOMAIN self.incorrect_positions}
    IN  Mask(EmptyDict,
             DictUnion(self.incorrect_positions,
                       [position \in DOMAIN self.correct_positions |-> yellows]),
             self.incorrect_globals \cup DictValues(self.correct_positions),
             EmptyDict)

\* Mask.is_word_accepted
is_word_accepted(self, word) ==
    /\ self.correct_letters \subseteq WordLetters(word)
    /\ self.incorrect_globals \cap WordLetters(word) = {}
    /\ \A position \in DOMAIN self.correct_positions :
          word[position] = self.correct_positions[position]
    /\ \A position \in DOMAIN self.incorrect_positions :
          word[position] \notin self.incorrect_positions[position]
    /\ \A letter \in DOMAIN self.max_occurrences :
          /\ WordContains(word, letter)
          /\ LetterCount(word, letter) <= self.max_occurrences[letter]

\* Mask.filter_words: the words of the list the Mask accepts, in their order
filter_words(self, wordlist) == SelectSeq(wordlist, LAMBDA word : is_word_accepted(self, word))

---------------------------------------------------------------------------
(* WordList *)

FREQ_DIGITS == 5

RECURSIVE Pow10(_)
Pow10(n) == IF n = 0 THEN 1 ELSE 10 * Pow10(n - 1)

\* round(count / total, 5), in units of 10^-5; a tie goes to the even unit
\* (no tie exists for a list of fewer than 64 words)
RoundFrequency(count, total) ==
    LET scaled == count * Pow10(FREQ_DIGITS)
        q == scaled \div total
        r == scaled % total
    IN  IF 2 * r < total THEN q
        ELSE IF 2 * r > total THEN q + 1
        ELSE IF q % 2 = 0 THEN q ELSE q + 1

\* the frequency of one letter in WordList.calculate_letter_frequency, in
\* units of 10^-5
LetterFrequency(wordlist, letter) ==
    LET occurrences == {<<i, p>> \in (DOMAIN wordlist) \X Positions : wordlist[i][p] = letter}
    IN  IF wordlist = <<>>
        THEN 0
        ELSE RoundFrequency(Cardinality(occurrences), Len(wordlist) * WORD_LEN)

\* WordList.calculate_letter_frequency: the frequency of every letter
calculate_letter_frequency(wordlist) ==
    [letter \in Letters |-> LetterFrequency(wordlist, letter)]

RECURSIVE SumFrequencies(_, _)
\* sum(frequency_dict[letter] for letter in self.letters)
SumFrequencies(letters, frequency_dict) ==
    IF letters = {}
    THEN 0
    ELSE LET letter == CHOOSE x \in letters : TRUE
         IN  frequency_dict[letter] + SumFrequencies(letters \ {letter}, frequency_dict)

\* Word.calculate_score(frequency_dict), in units of 10^-3: the sum over the
\* word's distinct letters, times 100, rounded to 3 places
calculate_score(word, frequency_dict) == SumFrequencies(WordLetters(word), frequency_dict)

\* list.sort(key = score, reverse = True) on the indices of the words: the
\* index that comes k-th.  The sort is stable: words of one score keep
\* their order
SortByScore(score, k) ==
    CHOOSE i \in DOMAIN score :
        Cardinality({j \in DOMAIN score :
                        \/ score[j] > score[i]
                        \/ score[j] = score[i] /\ j < i}) = k - 1

\* the key of the sort of frequency_sort: the score of every word of the
\* list against the list's letter_frequency
FrequencyScores(wordlist) ==
    Bind(calculate_letter_frequency(wordlist), LAMBDA letter_frequency :
        [i \in DOMAIN wordlist |-> calculate_score(wordlist[i], letter_frequency)])

\* WordList.frequency_sort: the list after the sort in place, by the scores
\* of its words against its own letter frequency, highest first
frequency_sort(wordlist) ==
    Bind(wordlist, LAMBDA list :
        Bind(FrequencyScores(list), LAMBDA score :
            [k \in DOMAIN list |-> list[SortByScore(score, k)]]))

RECURSIVE FoldMasks(_, _, _)
\* for mask in masks[1:]: total_mask += mask, from the k-th mask on;
\* total_mask here is a Mask that __add__ returned, not one of the list
FoldMasks(total_mask, mask_list, k) ==
    IF k > Len(mask_list)
    THEN [raised |-> None, total |-> total_mask]
    ELSE Bind(Mask_add(total_mask, mask_list[k]), LAMBDA sum :
             IF sum.raised # None
             THEN [raised |-> sum.raised, total |-> NoMask]
             ELSE FoldMasks(sum.result, mask_list, k + 1))

\* the fold of apply_masks over a list of two Masks or more, and the list
\* after it: [raised, total, masks]
SumOfMasks(mask_list) ==
    Bind(Mask_add(mask_list[1], mask_list[2]), LAMBDA first :
        Bind(IF first.raised # None
             THEN [raised |-> first.raised, total |-> NoMask]
             ELSE FoldMasks(first.result, mask_list, 3), LAMBDA fold :
            [raised |-> fold.raised, total |-> fold.total,
             masks |-> [mask_list EXCEPT ![1] = first.self_after]]))

\* WordList.apply_masks: [raised, same, words, masks].  same: the WordList
\* returned is the receiver itself; masks: the objects of the list after the
\* call (the first one is the left operand of the first __add__)
apply_masks(wordlist, mask_list) ==
    Bind(mask_list, LAMBDA given :
        IF given = <<>>
        THEN [raised |-> None, same |-> TRUE, words |-> wordlist, masks |-> given]
        ELSE IF Len(given) = 1
        THEN [raised |-> None, same |-> FALSE,
              words |-> filter_words(given[1], wordlist), masks |-> given]
        ELSE Bind(SumOfMasks(given), LAMBDA sum :
                 IF sum.raised # None
                 THEN [raised |-> sum.raised, same |-> FALSE, words |-> NoWord,
                       masks |-> sum.masks]
                 ELSE [raised |-> None, same |-> FALSE,
                       words |-> filter_words(sum.total, wordlist), masks |-> sum.masks]))

---------------------------------------------------------------------------
(* Scoring one guess: every target word and every guessed word over       *)
(* Letters, scored by calculate_guess_results and turned into a Mask as    *)
(* solve_wordle does.                                                      *)

NoOp == [op |-> None]

InitScore ==
    /\ target_word \in AllWords
    /\ guess_word \in AllWords
    /\ guess_results = NoWord
    /\ words = <<>>
    /\ masks = <<>>
    /\ starting_word = NoWord
    /\ possible_words = <<>>
    /\ info_words = <<>>
    /\ num_guesses = 0
    /\ results = EmptyDict
    /\ pc = "score"
    /\ last = NoOp

\* guess_results = target_word.calculate_guess_results(guess_word)
Score ==
    /\ pc = "score"
    /\ guess_results' = calculate_guess_results(target_word, guess_word)
    /\ pc' = "scored"
    /\ UNCHANGED <<words, masks, target_word, starting_word, guess_word,
                   possible_words, info_words, num_guesses, results, last>>

\* masks.append(Mask.from_wordle_results(guess_word.full_word, guess_results))
MaskOfScore ==
    /\ pc = "scored"
    /\ masks' = Append(masks, from_wordle_results(guess_word, guess_results).mask)
    /\ pc' = "masked"
    /\ UNCHANGED <<words, target_word, starting_word, guess_word, guess_results,
                   possible_words, info_words, num_guesses, results, last>>

NextScore == Score \/ MaskOfScore

SpecScore == InitScore /\ [][NextScore]_vars

\* the slots of the guessed word that hold the letter and are not black
NonBlackSlots(guessed_word, marks, letter) ==
    {p \in DOMAIN guessed_word : guessed_word[p] = letter /\ marks[p] # "b"}

MinOf(x, y) == IF x <= y THEN x ELSE y

\* C1: for every target and guess and every letter, the number of green or
\* yellow slots of the result that hold the letter is at most the smaller of
\* the letter's count in the target and its count in the guess.
C1_Conservation ==
    pc = "scored" =>
        \A letter \in Letters :
            Cardinality(NonBlackSlots(guess_word, guess_results, letter))
                <= MinOf(LetterCount(target_word, letter), LetterCount(guess_word, letter))

RECURSIVE ReferenceLoop(_, _, _, _)
\* the reference procedure of C7: slot by slot, green on a match, else yellow
\* while the non-black marks given to the letter so far are fewer than the
\* secret's count of it, else black
ReferenceLoop(secret, guess, slot, marks) ==
    IF slot > Len(guess)
    THEN marks
    ELSE LET letter == guess[slot]
             given  == Cardinality({q \in 1..(slot - 1) : guess[q] = letter /\ marks[q] # "b"})
             mark   == IF guess[slot] = secret[slot] THEN "g"
                       ELSE IF given < LetterCount(secret, letter) THEN "y"
                       ELSE "b"
         IN  ReferenceLoop(secret, guess, slot + 1, Append(marks, mark))

ReferenceScore(secret, guess) == ReferenceLoop(secret, guess, 1, <<>>)

Teeth == <<"t", "e", "e", "t", "h">>
Genie == <<"g", "e", "n", "i", "e">>
Epees == <<"e", "p", "e", "e", "s">>

\* C7: the scorer's result is the reference procedure's result; a word scored
\* against itself is all green; score(teeth, genie) = bgbby and
\* score(teeth, epees) = ybgbb.
C7_ScoreIsReference ==
    pc = "scored" =>
        /\ guess_results = ReferenceScore(target_word, guess_word)
        /\ (guess_word = target_word => guess_results = [p \in Positions |-> "g"])
        /\ calculate_guess_results(Teeth, Genie) = <<"b", "g", "b", "b", "y">>
        /\ calculate_guess_results(Teeth, Epees) = <<"y", "b", "g", "b", "b">>
        /\ calculate_guess_results(Teeth, Teeth) = <<"g", "g", "g", "g", "g">>

\* a guess that repeats a letter of the target: one occurrence is green, an
\* earlier one yellow and a later one black
C7_Witness ==
    /\ pc = "scored"
    /\ \E p, q, r \in Positions :
          /\ p < q /\ q < r
          /\ guess_word[p] = guess_word[q] /\ guess_word[q] = guess_word[r]
          /\ guess_results[p] = "y" /\ guess_results[q] = "g" /\ guess_results[r] = "b"

---------------------------------------------------------------------------
(* Mask.from_wordle_results on every guessed word over Letters and every   *)
(* result of five marks.                                                   *)

Marks == {"g", "y", "b"}

AllResults == [Positions -> Marks]

InitFrom ==
    /\ guess_word \in AllWords
    /\ guess_results \in AllResults
    /\ target_word = NoWord
    /\ words = <<>>
    /\ masks = <<>>
    /\ starting_word = NoWord
    /\ possible_words = <<>>
    /\ info_words = <<>>
    /\ num_guesses = 0
    /\ results = EmptyDict
    /\ pc = "from"
    /\ last = NoOp

\* masks.append(Mask.from_wordle_results(guess, result))
FromWordleResults ==
    /\ pc = "from"
    /\ LET made == from_wordle_results(guess_word, guess_results)
       IN  /\ masks' = IF made.raised = None THEN Append(masks, made.mask) ELSE masks
           /\ last' = [op |-> "from_wordle_results", raised |-> made.raised]
    /\ pc' = "made"
    /\ UNCHANGED <<words, target_word, starting_word, guess_word, guess_results,
                   possible_words, info_words, num_guesses, results>>

NextFrom == FromWordleResults

SpecFrom == InitFrom /\ [][NextFrom]_vars

\* the slots of the guessed word that hold the letter and are black
BlackSlots(guessed_word, marks, letter) ==
    {p \in DOMAIN guessed_word : guessed_word[p] = letter /\ marks[p] = "b"}

\* C6: from_guess_result maps exactly the green slots to their letters,
\* holds exactly the yellow slots, each with the one letter guessed there,
\* bans exactly the letters that have a black slot and no other slot, and caps
\* exactly the letters that have a black and a non-black slot, at the number
\* of their non-black slots.
C6_FromGuessResult ==
    pc = "made" =>
        /\ last.raised = None
        /\ Len(masks) = 1
        /\ LET m == masks[1]
           IN  /\ DOMAIN m.correct_positions = {p \in Positions : guess_results[p] = "g"}
               /\ \A p \in DOMAIN m.correct_positions : m.correct_positions[p] = guess_word[p]
               /\ DOMAIN m.incorrect_positions = {p \in Positions : guess_results[p] = "y"}
               /\ \A p \in DOMAIN m.incorrect_positions :
                     m.incorrect_positions[p] = {guess_word[p]}
               /\ m.incorrect_globals =
                     {l \in Letters : /\ BlackSlots(guess_word, guess_results, l) # {}
                                      /\ NonBlackSlots(guess_word, guess_results, l) = {}}
               /\ DOMAIN m.max_occurrences =
                     {l \in Letters : /\ BlackSlots(guess_word, guess_results, l) # {}
                                      /\ NonBlackSlots(guess_word, guess_results, l) # {}}
               /\ \A l \in DOMAIN m.max_occurrences :
                     m.max_occurrences[l] =
                         Cardinality(NonBlackSlots(guess_word, guess_results, l))

\* a guess with one letter three times, green, yellow and black, and another
\* letter that is black wherever it stands
C6_Witness ==
    /\ pc = "made"
    /\ Len(masks) = 1
    /\ \E l \in DOMAIN masks[1].max_occurrences : masks[1].max_occurrences[l] = 2
    /\ masks[1].incorrect_globals # {}
    /\ masks[1].correct_positions # EmptyDict
    /\ masks[1].incorrect_positions # EmptyDict

---------------------------------------------------------------------------
(* The Mask interface used by a caller, as the tests use it: Masks are     *)
(* made from guess results (or empty), added, and applied to a WordList.   *)
(* `masks` holds the caller's Mask objects.                                *)

MaxMasks == 3

\* the (guessed word, result) pairs the caller makes Masks from
MaskInputs ==
    { <<(<<"a", "c", "c", "c", "c">>), (<<"g", "b", "b", "b", "b">>)>>,
      <<(<<"c", "a", "b", "c", "a">>), (<<"g", "g", "y", "b", "y">>)>>,
      <<(<<"b", "b", "b", "a", "c">>), (<<"g", "y", "b", "y", "b">>)>>,
      <<(<<"c", "c", "a", "b", "b">>), (<<"b", "b", "g", "y", "b">>)>> }

\* the sequence of the elements of a set of words, in some fixed order
RECURSIVE SeqOfWords(_)
SeqOfWords(S) ==
    IF S = {}
    THEN <<>>
    ELSE LET w == CHOOSE x \in S : TRUE
         IN  <<w>> \o SeqOfWords(S \ {w})

\* the WordList the caller filters: every word over a and b, and the
\* guessed words of MaskInputs
CallerWords == SeqOfWords([Positions -> {"a", "b"}] \cup {input[1] : input \in MaskInputs})

\* the lists of distinct indices into masks, of every length
IndexLists ==
    {list \in UNION {[1..n -> DOMAIN masks] : n \in 0..Len(masks)} :
        \A i, j \in DOMAIN list : i # j => list[i] # list[j]}

InitMask ==
    /\ words = CallerWords
    /\ masks = <<>>
    /\ target_word = NoWord
    /\ guess_word = NoWord
    /\ guess_results = NoWord
    /\ starting_word = NoWord
    /\ possible_words = <<>>
    /\ info_words = <<>>
    /\ num_guesses = 0
    /\ results = EmptyDict
    /\ pc = "caller"
    /\ last = NoOp

\* m = Mask.from_wordle_results(guess, result)
NewMask(input) ==
    /\ pc = "caller"
    /\ Len(masks) < MaxMasks
    /\ masks' = Append(masks, from_wordle_results(input[1], input[2]).mask)
    /\ last' = [op |-> "from_wordle_results"]
    /\ UNCHANGED <<words, target_word, starting_word, guess_word, guess_results,
                   possible_words, info_words, num_guesses, results, pc>>

\* m = Mask()
NewEmptyMask ==
    /\ pc = "caller"
    /\ Len(masks) < MaxMasks
    /\ masks' = Append(masks, EmptyMask)
    /\ last' = [op |-> "Mask"]
    /\ UNCHANGED <<words, target_word, starting_word, guess_word, guess_results,
                   possible_words, info_words, num_guesses, results, pc>>

\* m = masks[i] + masks[j]; the new Mask is kept when there is room for it
AddMasks(i, j) ==
    /\ pc = "caller"
    /\ LET sum == Mask_add(masks[i], masks[j])
           after == [masks EXCEPT ![i] = sum.self_after]
       IN  /\ masks' = IF sum.raised = None /\ Len(masks) < MaxMasks
                       THEN Append(after, sum.result)
                       ELSE after
           /\ last' = [op |-> "add", self |-> masks[i], other |-> masks[j],
                       i |-> i, j |-> j, raised |-> sum.raised, result |-> sum.result]
    /\ UNCHANGED <<words, target_word, starting_word, guess_word, guess_results,
                   possible_words, info_words, num_guesses, results, pc>>

\* words.apply_masks([masks[i] for i in list])
ApplyMasks(list) ==
    /\ pc = "caller"
    /\ LET given == [k \in DOMAIN list |-> masks[list[k]]]
           applied == apply_masks(words, given)
       IN  /\ masks' = IF list = <<>>
                       THEN masks
                       ELSE [masks EXCEPT ![list[1]] = applied.masks[1]]
           /\ last' = [op |-> "apply_masks", list |-> list, given |-> given,
                       raised |-> applied.raised, same |-> applied.same,
                       words |-> applied.words]
    /\ UNCHANGED <<words, target_word, starting_word, guess_word, guess_results,
                   possible_words, info_words, num_guesses, results, pc>>

NextMask ==
    \/ \E input \in MaskInputs : NewMask(input)
    \/ NewEmptyMask
    \/ \E i, j \in DOMAIN masks : AddMasks(i, j)

SpecMask == InitMask /\ [][NextMask]_vars

\* the same caller, who also filters the WordList by lists of the Masks
NextApply ==
    \/ \E input \in MaskInputs : NewMask(input)
    \/ NewEmptyMask
    \/ \E i, j \in DOMAIN masks : AddMasks(i, j)
    \/ \E list \in IndexLists : ApplyMasks(list)

SpecApply == InitMask /\ [][NextApply]_vars


\* some slot is green in both Masks, with different letters
SlotDisagreement(a, b) ==
    \E slot \in Positions :
        /\ slot \in DOMAIN a.correct_positions
        /\ slot \in DOMAIN b.correct_positions
        /\ a.correct_positions[slot] # b.correct_positions[slot]

\* some green letter of one Mask is banned by the other
RequiredAndForbidden(a, b) ==
    \E letter \in Letters :
        \/ /\ \E slot \in DOMAIN a.correct_positions : a.correct_positions[slot] = letter
           /\ letter \in b.incorrect_globals
        \/ /\ \E slot \in DOMAIN b.correct_positions : b.correct_positions[slot] = letter
           /\ letter \in a.incorrect_globals

\* some letter is capped by both Masks, at different counts
CapDisagreement(a, b) ==
    \E letter \in Letters :
        /\ letter \in DOMAIN a.max_occurrences
        /\ letter \in DOMAIN b.max_occurrences
        /\ a.max_occurrences[letter] # b.max_occurrences[letter]

\* no green letter of the Mask is banned by it
GreenNotBanned(m) ==
    \A slot \in DOMAIN m.correct_positions : m.correct_positions[slot] \notin m.incorrect_globals

\* C3: merge(a, b) fails with a conflict error, and yields no mask, exactly
\* when a and b disagree on a green slot, or a green letter of one is banned
\* by the other, or they cap a letter differently; so no mask made from guess
\* results and successful merges has a green letter that it bans.
C3_MergeConflicts ==
    /\ last.op = "add" =>
          /\ (last.raised # None) <=>
                \/ SlotDisagreement(last.self, last.other)
                \/ RequiredAndForbidden(last.self, last.other)
                \/ CapDisagreement(last.self, last.other)
          /\ last.raised # None => last.result = NoMask /\ masks[last.i] = last.self
          /\ last.raised = None => last.result # NoMask /\ GreenNotBanned(last.result)
    /\ \A k \in DOMAIN masks : GreenNotBanned(masks[k])

\* a merge refused only because a green letter of one operand is banned by
\* the other
C3_Witness ==
    /\ last.op = "add"
    /\ last.raised # None
    /\ RequiredAndForbidden(last.self, last.other)
    /\ ~SlotDisagreement(last.self, last.other)
    /\ ~CapDisagreement(last.self, last.other)

\* C4: a successful merge leaves both operands as they were, and apply_masks
\* leaves every mask of its list as it was.
C4_OperandsUnchanged ==
    /\ last.op = "add" /\ last.raised = None =>
          /\ masks[last.i] = last.self
          /\ masks[last.j] = last.other
    /\ last.op = "apply_masks" =>
          \A k \in DOMAIN last.list : masks[last.list[k]] = last.given[k]

\* the words of the list that every one of the Masks accepts, in their order
AcceptedByEach(wordlist, mask_list) ==
    SelectSeq(wordlist, LAMBDA word :
        \A k \in DOMAIN mask_list : is_word_accepted(mask_list[k], word))

\* C5: when the fold raises no conflict, apply_masks returns exactly the
\* words, in their order, that every mask of the list accepts on its own
\* (with one mask the words it accepts, with none every word).
C5_ApplyIsConjunction ==
    last.op = "apply_masks" /\ last.raised = None =>
        last.words = AcceptedByEach(words, last.given)

\* the two Masks accept the same words
SameWords(m, n) == \A word \in AllWords : is_word_accepted(m, word) <=> is_word_accepted(n, word)

Raises(a, b) == Mask_add(a, b).raised # None

Sum(a, b) == Mask_add(a, b).result

\* C8: merge is commutative and associative in whether it raises and in the
\* words the result accepts, and the empty mask is its identity.
C8_MergeAlgebra ==
    \A i, j, k \in DOMAIN masks :
        LET a == masks[i]
            b == masks[j]
            c == masks[k]
            left  == Raises(a, b) \/ Raises(Sum(a, b), c)
            right == Raises(b, c) \/ Raises(a, Sum(b, c))
        IN  /\ Raises(a, b) <=> Raises(b, a)
            /\ ~Raises(a, b) => SameWords(Sum(a, b), Sum(b, a))
            /\ left <=> right
            /\ ~left => SameWords(Sum(Sum(a, b), c), Sum(a, Sum(b, c)))
            /\ ~Raises(a, EmptyMask) /\ ~Raises(EmptyMask, a)
            /\ SameWords(Sum(a, EmptyMask), a)
            /\ SameWords(Sum(EmptyMask, a), a)

---------------------------------------------------------------------------
(* interactive_prompt: the vocabulary read from the file, the list of the  *)
(* Masks of the guesses entered, and the commands add, reset, masks,       *)
(* reload and suggest.                                                     *)

MaxGuesses == 2

MAX_PRINT_RESULTS == 15

\* the word lists the file may hold (WordList.from_file keeps its order)
WordFiles ==
    { <<(<<"c", "c", "c", "c", "c">>), (<<"a", "b", "a", "b", "a">>),
        (<<"b", "a", "a", "a", "b">>), (<<"a", "a", "b", "b", "c">>)>>,
      <<(<<"a", "b", "a", "b", "a">>), (<<"a", "a", "b", "b", "c">>),
        (<<"b", "a", "a", "a", "b">>)>> }

\* the (guess, result) pairs the user may enter
GuessInputs ==
    { <<(<<"a", "a", "b", "b", "c">>), (<<"y", "g", "b", "y", "b">>)>>,
      <<(<<"a", "b", "a", "b", "a">>), (<<"b", "y", "g", "b", "y">>)>>,
      <<(<<"c", "c", "c", "c", "c">>), (<<"b", "b", "b", "b", "b">>)>>,
      <<(<<"a", "c", "a", "c", "a">>), (<<"y", "b", "g", "b", "b">>)>> }

\* words = WordList.from_file(WORDS_FILENAME); masks = []
InitPrompt ==
    /\ words \in WordFiles
    /\ masks = <<>>
    /\ target_word = NoWord
    /\ guess_word = NoWord
    /\ guess_results = NoWord
    /\ starting_word = NoWord
    /\ possible_words = <<>>
    /\ info_words = <<>>
    /\ num_guesses = 0
    /\ results = EmptyDict
    /\ pc = "prompt"
    /\ last = NoOp

\* case ["reload"]
Reload(file) ==
    /\ pc = "prompt"
    /\ words' = file
    /\ last' = [op |-> "reload"]
    /\ UNCHANGED <<masks, target_word, starting_word, guess_word, guess_results,
                   possible_words, info_words, num_guesses, results, pc>>

\* case ["masks"] | ["guesses"] | ["filters"]: the Masks are printed
ListGuesses ==
    /\ pc = "prompt"
    /\ last' = [op |-> "masks", shown |-> masks]
    /\ UNCHANGED <<words, masks, target_word, starting_word, guess_word, guess_results,
                   possible_words, info_words, num_guesses, results, pc>>

\* case ["reset"]
Reset ==
    /\ pc = "prompt"
    /\ masks' = <<>>
    /\ last' = [op |-> "reset"]
    /\ UNCHANGED <<words, target_word, starting_word, guess_word, guess_results,
                   possible_words, info_words, num_guesses, results, pc>>

\* case ["add", guess, result]: an exception of from_wordle_results is not
\* caught, and ends the prompt
AddGuess(input) ==
    /\ pc = "prompt"
    /\ Len(masks) < MaxGuesses
    /\ LET made == from_wordle_results(input[1], input[2])
       IN  /\ masks' = IF made.raised = None THEN Append(masks, made.mask) ELSE masks
           /\ pc' = IF made.raised = None THEN "prompt" ELSE made.raised
           /\ last' = [op |-> "add", raised |-> made.raised]
    /\ UNCHANGED <<words, target_word, starting_word, guess_word, guess_results,
                   possible_words, info_words, num_guesses, results>>

\* suggest_masks of case ["suggest", suggest_type]
SuggestMasks(suggest_type, mask_list) ==
    IF suggest_type = "info"
    THEN [k \in DOMAIN mask_list |-> info_guess_version(mask_list[k])]
    ELSE mask_list

\* case ["suggest", ("solve" | "info") as suggest_type]: the Masks of
\* suggest solve are the prompt's own list, those of suggest info are new
\* objects; the WordList that apply_masks returns is sorted in place, which
\* sorts words when it is words itself; an exception of apply_masks is not
\* caught, and ends the prompt
Suggest(suggest_type) ==
    /\ pc = "prompt"
    /\ \E applied \in {apply_masks(words, SuggestMasks(suggest_type, masks))} :
       \E sorted \in {IF applied.raised = None /\ applied.words # <<>>
                      THEN frequency_sort(applied.words)
                      ELSE applied.words} :
           /\ masks' = IF suggest_type = "solve" THEN applied.masks ELSE masks
           /\ words' = IF applied.raised = None /\ applied.same THEN sorted ELSE words
           /\ pc' = IF applied.raised = None THEN "prompt" ELSE applied.raised
           /\ last' = [op |-> "suggest", type |-> suggest_type, raised |-> applied.raised,
                       same |-> applied.same, words_before |-> words, masks_before |-> masks,
                       shown |-> SubSeq(sorted, 1, MinOf(Len(sorted), MAX_PRINT_RESULTS))]
    /\ UNCHANGED <<target_word, starting_word, guess_word, guess_results,
                   possible_words, info_words, num_guesses, results>>

NextPrompt ==
    \/ \E file \in WordFiles : Reload(file)
    \/ ListGuesses
    \/ Reset
    \/ \E input \in GuessInputs : AddGuess(input)
    \/ \E suggest_type \in {"solve", "info"} : Suggest(suggest_type)

SpecPrompt == InitPrompt /\ [][NextPrompt]_vars

\* C9: apply_masks returns a collection other than its receiver for any
\* number of masks, zero included, so the in-place sort of what it returned
\* leaves the receiver's order alone: suggest never changes the order or the
\* content of the session vocabulary.
C9_SuggestKeepsVocabulary ==
    last.op = "suggest" =>
        /\ ~last.same
        /\ words = last.words_before

---------------------------------------------------------------------------
(* solve_wordle and solve_all_wordles.                                     *)

MaxVocabulary == 3

MIN_POSSIBLE_WORDS == 20

MIN_INFO_WORDS == 10

\* the words of the small vocabularies, and the starting words
SolveWords ==
    { <<"b", "b", "a", "a", "b">>, <<"b", "b", "a", "b", "b">>,
      <<"a", "c", "a", "c", "a">>, <<"c", "c", "c", "c", "c">>,
      <<"a", "a", "b", "b", "c">> }

\* every list of up to MaxVocabulary distinct words of SolveWords, and one
\* list long enough for an informational guess
Vocabularies ==
    {list \in UNION {[1..n -> SolveWords] : n \in 1..MaxVocabulary} :
        \A i, j \in DOMAIN list : i # j => list[i] # list[j]}
    \cup {CallerWords}

\* the words of a WordList
WordSet(wordlist) == {wordlist[i] : i \in DOMAIN wordlist}

\* a mutant of SolvePrologue: possible_words is all_words itself, not a copy
SolvePrologueNoCopy(all_words, starting) ==
    IF starting # NoWord
    THEN [possible_words |-> all_words, guess_word |-> starting, all_words |-> all_words]
    ELSE Bind(frequency_sort(all_words), LAMBDA sorted :
             [possible_words |-> sorted, guess_word |-> sorted[1], all_words |-> sorted])

\* solve_wordle up to its loop: possible_words is a copy of all_words, and
\* calculate_best_freqsort_word sorts the copy in place
SolvePrologue(all_words, starting) ==
    IF starting # NoWord
    THEN [possible_words |-> all_words, guess_word |-> starting, all_words |-> all_words]
    ELSE Bind(frequency_sort(all_words), LAMBDA sorted :
             [possible_words |-> sorted, guess_word |-> sorted[1], all_words |-> all_words])

\* a mutant of SolveNextGuess: the stuck check looks for the empty list only
SolveNextGuessEmptyOnly(target, known, possible, info) ==
    IF possible = <<>>
    THEN [known EXCEPT !.outcome = "RuntimeError",
                       !.possible_words = possible,
                       !.info_words = info]
    ELSE Bind(frequency_sort(possible), LAMBDA sorted :
             [known EXCEPT !.outcome = "guessing",
                           !.possible_words = sorted,
                           !.info_words = info,
                           !.guess_word = sorted[1],
                           !.informational = FALSE])

\* the end of a pass of the loop of solve_wordle: the stuck check, and the
\* next guess
SolveNextGuess(target, known, possible, info) ==
    IF \/ possible = <<>>
       \/ Len(possible) = 1 /\ possible[1] # target
    THEN [known EXCEPT !.outcome = "RuntimeError",
                       !.possible_words = possible,
                       !.info_words = info]
    ELSE IF /\ Len(possible) >= MIN_POSSIBLE_WORDS
            /\ Len(info) >= MIN_INFO_WORDS
    THEN Bind(frequency_sort(info), LAMBDA sorted :
             [known EXCEPT !.outcome = "guessing",
                           !.possible_words = possible,
                           !.info_words = sorted,
                           !.guess_word = sorted[1],
                           !.informational = TRUE])
    ELSE Bind(frequency_sort(possible), LAMBDA sorted :
             [known EXCEPT !.outcome = "guessing",
                           !.possible_words = sorted,
                           !.info_words = info,
                           !.guess_word = sorted[1],
                           !.informational = FALSE])

\* a mutant of SolveWrongGuess: info_words is filtered from possible_words as
\* it was before this pass
SolveWrongGuessUnfiltered(target, st) ==
    Bind(calculate_guess_results(target, st.guess_word), LAMBDA marks :
    Bind(apply_masks(st.possible_words,
                     Append(st.masks, from_wordle_results(st.guess_word, marks).mask)),
         LAMBDA applied :
    Bind([st EXCEPT !.num_guesses = st.num_guesses + 1, !.guess_results = marks,
                    !.masks = applied.masks], LAMBDA known :
        IF applied.raised # None
        THEN [known EXCEPT !.outcome = applied.raised]
        ELSE Bind(apply_masks(st.possible_words,
                              [k \in DOMAIN applied.masks |->
                                  info_guess_version(applied.masks[k])]),
                  LAMBDA informed :
                 IF informed.raised # None
                 THEN [known EXCEPT !.outcome = informed.raised,
                                    !.possible_words = applied.words]
                 ELSE SolveNextGuess(target, known, applied.words, informed.words)))))

\* a pass of the loop of solve_wordle after a wrong guess: the guess is
\* scored, its Mask is appended, and the two lists are filtered
SolveWrongGuess(target, st) ==
    Bind(calculate_guess_results(target, st.guess_word), LAMBDA marks :
    Bind(apply_masks(st.possible_words,
                     Append(st.masks, from_wordle_results(st.guess_word, marks).mask)),
         LAMBDA applied :
    Bind([st EXCEPT !.num_guesses = st.num_guesses + 1, !.guess_results = marks,
                    !.masks = applied.masks], LAMBDA known :
        IF applied.raised # None
        THEN [known EXCEPT !.outcome = applied.raised]
        ELSE Bind(apply_masks(applied.words,
                              [k \in DOMAIN applied.masks |->
                                  info_guess_version(applied.masks[k])]),
                  LAMBDA informed :
                 IF informed.raised # None
                 THEN [known EXCEPT !.outcome = informed.raised,
                                    !.possible_words = applied.words]
                 ELSE SolveNextGuess(target, known, applied.words, informed.words)))))

\* one pass of the loop of solve_wordle, from the state st of its variables:
\* the state after it and its outcome ("guessing": the loop goes on)
SolveBody(target, st) ==
    IF st.guess_word = target
    THEN [st EXCEPT !.outcome = "returned", !.num_guesses = st.num_guesses + 1]
    ELSE SolveWrongGuess(target, st)

\* the variables of solve_wordle when its loop is entered
SolveEntry(all_words, starting) ==
    Bind(SolvePrologue(all_words, starting), LAMBDA entered :
        [outcome |-> "guessing", num_guesses |-> 0, guess_results |-> NoWord,
         masks |-> <<>>, possible_words |-> entered.possible_words,
         info_words |-> <<>>, guess_word |-> entered.guess_word,
         informational |-> FALSE])

RECURSIVE SolveLoop(_, _)
\* while True: the state in which solve_wordle returns or raises
SolveLoop(target, st) ==
    IF st.outcome # "guessing"
    THEN st
    ELSE Bind(SolveBody(target, st), LAMBDA after : SolveLoop(target, after))

\* solve_wordle(target, all_words, starting) called on its own
solve_wordle(target, all_words, starting) ==
    Bind(SolveEntry(all_words, starting), LAMBDA entered : SolveLoop(target, entered))

\* the variables of solve_wordle, as a state of SolveBody
SolveState ==
    [outcome |-> pc, num_guesses |-> num_guesses, guess_results |-> guess_results,
     masks |-> masks, possible_words |-> possible_words, info_words |-> info_words,
     guess_word |-> guess_word, informational |-> last.informational]

InitSolve ==
    /\ words \in Vocabularies
    /\ masks = <<>>
    /\ target_word = NoWord
    /\ guess_word = NoWord
    /\ guess_results = NoWord
    /\ starting_word = NoWord
    /\ possible_words = <<>>
    /\ info_words = <<>>
    /\ num_guesses = 0
    /\ results = EmptyDict
    /\ pc = "prompt"
    /\ last = NoOp

\* the call solve_wordle(target, words, starting), up to the loop
EnterSolve(target, starting, caller) ==
    \E entered \in {SolvePrologue(words, starting)} :
        /\ words' = entered.all_words
        /\ target_word' = target
        /\ starting_word' = starting
        /\ masks' = <<>>
        /\ num_guesses' = 0
        /\ guess_results' = NoWord
        /\ possible_words' = entered.possible_words
        /\ info_words' = <<>>
        /\ guess_word' = entered.guess_word
        /\ pc' = "guessing"
        /\ last' = [op |-> caller, all_words |-> words, informational |-> FALSE]

\* case ["autosolve", word], or a caller's solve_wordle(target, words, starting)
SolveWordle(target, starting) ==
    /\ pc = "prompt"
    /\ EnterSolve(target, starting, "solve_wordle")
    /\ UNCHANGED results

\* one pass of the loop of solve_wordle; in solve_all_wordles the count
\* returned is stored in results and the next word is taken, and an
\* exception ends solve_all_wordles too
SolveGuess ==
    /\ pc = "guessing"
    /\ \E st \in {SolveBody(target_word, SolveState)} :
           /\ num_guesses' = st.num_guesses
           /\ guess_results' = st.guess_results
           /\ masks' = st.masks
           /\ possible_words' = st.possible_words
           /\ info_words' = st.info_words
           /\ guess_word' = st.guess_word
           /\ last' = [last EXCEPT !.informational = st.informational]
           /\ pc' = IF st.outcome = "returned" /\ last.op = "solve_all_wordles"
                    THEN "next_word"
                    ELSE st.outcome
           /\ results' = IF st.outcome = "returned" /\ last.op = "solve_all_wordles"
                         THEN DictSet(results, target_word, st.num_guesses)
                         ELSE results
    /\ UNCHANGED <<words, target_word, starting_word>>

\* case ["autosolve", "all"]: solve_all_wordles up to its loop;
\* calculate_best_freqsort_word sorts words in place
SolveAllWordles ==
    /\ pc = "prompt"
    /\ \E sorted \in {frequency_sort(words)} :
           /\ words' = sorted
           /\ starting_word' = sorted[1]
           /\ last' = [op |-> "solve_all_wordles", all_words |-> sorted,
                       informational |-> FALSE]
    /\ results' = EmptyDict
    /\ pc' = "next_word"
    /\ UNCHANGED <<masks, target_word, guess_word, guess_results,
                   possible_words, info_words, num_guesses>>

\* for word in words: results[word] = solve_wordle(word, words, starting_word)
NextWord ==
    /\ pc = "next_word"
    /\ Cardinality(DOMAIN results) < Len(words)
    /\ EnterSolve(words[Cardinality(DOMAIN results) + 1], starting_word, "solve_all_wordles")
    /\ UNCHANGED results

\* the loop is over: the statistics are printed
AllSolved ==
    /\ pc = "next_word"
    /\ Cardinality(DOMAIN results) = Len(words)
    /\ pc' = "done"
    /\ UNCHANGED <<words, masks, target_word, starting_word, guess_word, guess_results,
                   possible_words, info_words, num_guesses, results, last>>

NextSolve ==
    \/ \E target \in SolveWords \cup WordSet(words), starting \in SolveWords \cup {NoWord} :
          SolveWordle(target, starting)
    \/ SolveGuess
    \/ SolveAllWordles
    \/ NextWord
    \/ AllSolved

SpecSolve == InitSolve /\ [][NextSolve]_vars

\* a call of solve_wordle has been made and its secret is a word of the
\* vocabulary it was given
SolvingMember ==
    /\ last.op \in {"solve_wordle", "solve_all_wordles"}
    /\ target_word # NoWord
    /\ target_word \in WordSet(last.all_words)

\* C2: for every vocabulary, every secret that is one of its words and every
\* starting guess, given or defaulted, solve_wordle raises no exception and
\* its guess count is at most the size of the vocabulary plus one
C2_SolveTerminates ==
    SolvingMember =>
        /\ pc \notin {"ValueError", "RuntimeError"}
        /\ num_guesses <= Len(last.all_words) + 1

\* C10: solve_wordle leaves the vocabulary it is given as it was, same words
\* in the same order, while it runs and when it has returned or raised; and
\* in solve_all_wordles every count stored equals the count of solve_wordle
\* called on its own with the same vocabulary and starting word
C10_SolveKeepsVocabulary ==
    /\ last.op \in {"solve_wordle", "solve_all_wordles"} => words = last.all_words
    /\ last.op = "solve_all_wordles" =>
          \A w \in DOMAIN results :
              LET alone == solve_wordle(w, last.all_words, starting_word)
              IN  /\ alone.outcome = "returned"
                  /\ alone.num_guesses = results[w]

\* the order of the scores of a list: no word scores higher than one before it
FrequencySorted(wordlist) == frequency_sort(wordlist) = wordlist

\* a solve with the defaulted starting guess has come to its end after
\* several guesses, on a vocabulary that is not in the order of the scores;
\* and a solve_all_wordles has stored the counts of all its words
C10_Witness ==
    \/ /\ last.op = "solve_wordle"
       /\ starting_word = NoWord
       /\ pc \in {"returned", "ValueError", "RuntimeError"}
       /\ num_guesses >= 2
       /\ ~FrequencySorted(words)
    \/ /\ pc = "done"
       /\ Len(words) >= 2
       /\ \E w \in DOMAIN results : results[w] >= 2

---------------------------------------------------------------------------
(* case ["add"] of interactive_prompt: the guessed word and its result are *)
(* typed in, of any length and in any letter case.                         *)

MaxEntered == 1

\* the lengths of the strings typed in
EnteredLengths == (WORD_LEN - 1)..(WORD_LEN + 1)

\* the strings typed in as guessed words
EnteredWords ==
    {word \in UNION {[1..n -> {"a", "A", "b"}] : n \in EnteredLengths} :
        /\ word[1] = "a"
        /\ word[2] = "b"
        /\ \A i \in 3..Len(word) : word[i] # "b"}

\* the strings typed in as results
EnteredResults ==
    {result \in UNION {[1..n -> {"g", "Y", "b", "x"}] : n \in EnteredLengths} :
        /\ result[1] = "g"
        /\ result[2] = "b"
        /\ \A i \in 3..Len(result) : result[i] # "g"}

InitEntry ==
    /\ words \in WordFiles
    /\ masks = <<>>
    /\ target_word = NoWord
    /\ guess_word = NoWord
    /\ guess_results = NoWord
    /\ starting_word = NoWord
    /\ possible_words = <<>>
    /\ info_words = <<>>
    /\ num_guesses = 0
    /\ results = EmptyDict
    /\ pc = "prompt"
    /\ last = NoOp

\* case ["add"]: guess = input(...); result = input(...);
\* masks.append(Mask.from_wordle_results(guess, result)); an exception of
\* from_wordle_results is not caught, and ends the prompt
AddEntered(guess, result) ==
    /\ pc = "prompt"
    /\ Len(masks) < MaxEntered
    /\ guess_word' = guess
    /\ guess_results' = result
    /\ \E made \in {from_wordle_results(guess, result)} :
           /\ masks' = IF made.raised = None THEN Append(masks, made.mask) ELSE masks
           /\ pc' = IF made.raised = None THEN "prompt" ELSE made.raised
           /\ last' = [op |-> "add", raised |-> made.raised, masks_before |-> masks]
    /\ UNCHANGED <<words, target_word, starting_word, possible_words, info_words,
                   num_guesses, results>>

NextEntry == \E guess \in EnteredWords, result \in EnteredResults : AddEntered(guess, result)

SpecEntry == InitEntry /\ [][NextEntry]_vars

\* the guessed word and the result typed in are well formed
WellFormed(guess, result) ==
    /\ Len(guess) = WORD_LEN
    /\ Len(result) = WORD_LEN
    /\ \A i \in DOMAIN result : result[i] \in {"g", "y", "b", "G", "Y", "B"}

\* C11: an add with a guessed word that has not five letters, a result that
\* has not five symbols, or a result with a symbol other than g, y, b in
\* either case raises the validation error and leaves the list of Masks as
\* it was; a well-formed add appends the Mask of the lower-case input
C11_AddValidates ==
    last.op = "add" =>
        IF WellFormed(guess_word, guess_results)
        THEN /\ last.raised = None
             /\ masks = Append(last.masks_before,
                               from_wordle_results(LowerAll(guess_word),
                                                   LowerAll(guess_results)).mask)
        ELSE /\ last.raised = "ValueError"
             /\ masks = last.masks_before

---------------------------------------------------------------------------
(* A caller who makes Masks, adds them and takes their informational       *)
(* versions.                                                               *)

\* m = masks[i].info_guess_version(); the new Mask is kept when there is
\* room for it
InfoGuessVersion(i) ==
    /\ pc = "caller"
    /\ \E version \in {info_guess_version(masks[i])} :
           /\ masks' = IF Len(masks) < MaxMasks THEN Append(masks, version) ELSE masks
           /\ last' = [op |-> "info_guess_version", i |-> i, self |-> masks[i],
                       result |-> version]
    /\ UNCHANGED <<words, target_word, starting_word, guess_word, guess_results,
                   possible_words, info_words, num_guesses, results, pc>>

NextInfo ==
    \/ \E input \in MaskInputs : NewMask(input)
    \/ \E i, j \in DOMAIN masks : AddMasks(i, j)
    \/ \E i \in DOMAIN masks : InfoGuessVersion(i)

SpecInfo == InitMask /\ [][NextInfo]_vars

\* the yellow letters of a Mask, over all its slots
AllYellows(m) == UNION {m.incorrect_positions[p] : p \in DOMAIN m.incorrect_positions}

\* the Mask of test_info_guess_version and the Mask the test expects
Slate == Mask((1 :> "s") @@ (4 :> "t"), (5 :> {"e"}), {"l", "a"}, EmptyDict)
SlateInfo == Mask(EmptyDict, (1 :> {"e"}) @@ (4 :> {"e"}) @@ (5 :> {"e"}), {"s", "l", "a", "t"}, EmptyDict)

\* C12: info_guess_version(m) has no green slot; a slot that was green in m
\* is forbidden the yellow letters of all slots of m (and has no entry when
\* there are none); every other slot keeps its forbidden set; the banned
\* letters are those of m and the green letters of m; m is left as it was
C12_InfoGuessVersion ==
    /\ info_guess_version(Slate) = SlateInfo
    /\ last.op = "info_guess_version" =>
          LET m == last.self
              v == last.result
          IN  /\ v.correct_positions = EmptyDict
              /\ \A p \in Positions :
                    LET forbidden == IF p \in DOMAIN v.incorrect_positions
                                     THEN v.incorrect_positions[p]
                                     ELSE {}
                    IN  /\ p \in DOMAIN v.incorrect_positions => forbidden # {}
                        /\ p \in DOMAIN m.correct_positions => forbidden = AllYellows(m)
                        /\ p \notin DOMAIN m.correct_positions =>
                              forbidden = DictGet(m.incorrect_positions, p, {})
              /\ v.incorrect_globals =
                    m.incorrect_globals \cup {m.correct_positions[p] : p \in DOMAIN m.correct_positions}
              /\ masks[last.i] = m

\* the informational version of a Mask with green slots and yellow letters
\* has been taken, and of a Mask that is the sum of two
C12_Witness ==
    /\ last.op = "info_guess_version"
    /\ last.self.correct_positions # EmptyDict
    /\ AllYellows(last.self) # {}
    /\ \E p \in DOMAIN last.self.correct_positions : p \in DOMAIN last.self.incorrect_positions

---------------------------------------------------------------------------
(* The guesses of a run of solve_wordle.                                   *)

\* calculate_best_freqsort_word of a list that is not empty
BestWord(wordlist) == frequency_sort(wordlist)[1]

\* C13: in every run of solve_wordle the first two guesses are informational
\* (the best word of the words filtered by the informational versions of the
\* Masks so far, which for the first guess is the whole vocabulary; a
\* starting word given by the caller is taken as it is) and every guess from
\* the third on is the best word of the solve candidates
C13_GuessKinds ==
    pc = "guessing" =>
        /\ num_guesses = 0 /\ starting_word = NoWord => guess_word = BestWord(last.all_words)
        /\ num_guesses = 1 => info_words # <<>> /\ guess_word = BestWord(info_words)
        /\ num_guesses >= 2 => guess_word = BestWord(possible_words)

\* what a pass of the loop of solve_wordle may do, from the guess and the
\* lists before it (unprimed) to the outcome after it (primed)
SolvePassRule ==
    LET candidates == AcceptedByEach(possible_words, masks')
    IN  /\ pc' \in {"returned", "next_word"} <=> guess_word = target_word
        /\ pc' \in {"returned", "next_word"} =>
              /\ num_guesses' = num_guesses + 1
              /\ UNCHANGED <<masks, guess_results, possible_words>>
        /\ pc' = "next_word" => results'[target_word] = num_guesses + 1
        /\ pc' = "RuntimeError" <=>
              /\ guess_word # target_word
              /\ pc' # "ValueError"
              /\ \/ candidates = <<>>
                 \/ Len(candidates) = 1 /\ candidates[1] # target_word
        /\ pc' \in {"guessing", "RuntimeError"} =>
              /\ Len(possible_words') = Len(candidates)
              /\ WordSet(possible_words') = WordSet(candidates)

\* C14: a pass of the loop of solve_wordle returns exactly when the guess
\* is the secret, and the count returned is the number of guesses made, that
\* guess included; it raises the RuntimeError of the stuck check exactly when
\* the guess is wrong, the Masks could be added, and the words left after
\* filtering by all the Masks are none or one word that is not the secret;
\* after a return or a RuntimeError the run makes no step
C14_SolveStateMachine ==
    [][(pc = "guessing" => SolvePassRule) /\ (pc \notin {"returned", "RuntimeError"})]_vars

\* a run has ended in the stuck check with one word left that is not the
\* secret, after more than one guess
C14_Witness ==
    /\ pc = "RuntimeError"
    /\ num_guesses >= 2
    /\ Len(possible_words) = 1

\* C15: in a run of solve_wordle whose secret is a word of the vocabulary
\* the Masks of the guesses never disagree (on the letter of a green slot,
\* on a letter one requires green and another bans, or on the cap of a
\* letter), so adding them never raises the ValueError of Mask.__add__
C15_NoConflict ==
    SolvingMember =>
        /\ pc # "ValueError"
        /\ \A i, j \in DOMAIN masks :
              /\ ~SlotDisagreement(masks[i], masks[j])
              /\ ~RequiredAndForbidden(masks[i], masks[j])
              /\ ~CapDisagreement(masks[i], masks[j])

---------------------------------------------------------------------------
(* The scorer called on any two words, and the scorer inside the runs of   *)
(* solve_wordle.                                                           *)

InitScoreSolve == InitScore \/ InitSolve

NextScoreSolve == NextScore \/ NextSolve

SpecScoreSolve == InitScoreSolve /\ [][NextScoreSolve]_vars

\* the words of test_is_word_accepted_dupes
Arose == <<"a", "r", "o", "s", "e">>
Adobo == <<"a", "d", "o", "b", "o">>

\* C16: the Mask made from a guess and its score against a secret accepts
\* the secret, for every secret and guess; so in a run of solve_wordle whose
\* secret is a word of the vocabulary every Mask of the run accepts the
\* secret and, after every filtering that raised nothing, the secret is one
\* of possible_words
C16_SecretAccepted ==
    /\ calculate_guess_results(Adobo, Arose) = <<"g", "b", "g", "b", "b">>
    /\ is_word_accepted(from_wordle_results(Arose, <<"g", "b", "g", "b", "b">>).mask, Adobo)
    /\ pc = "masked" => is_word_accepted(masks[1], target_word)
    /\ SolvingMember =>
          /\ \A k \in DOMAIN masks : is_word_accepted(masks[k], target_word)
          /\ pc \in {"guessing", "RuntimeError"} => target_word \in WordSet(possible_words)

\* a run with a secret of the vocabulary has filtered twice, and one of its
\* guesses held a letter more often than the secret does
C16_Witness ==
    /\ SolvingMember
    /\ pc = "guessing"
    /\ num_guesses >= 2
    /\ \E k \in DOMAIN masks : masks[k].max_occurrences # EmptyDict

---------------------------------------------------------------------------
\* a Mask with a green slot
HasGreen(mask) == mask.correct_positions # EmptyDict

\* C17: after every filtering of a run of solve_wordle info_words holds only
\* words of possible_words, and it is empty when a Mask of the run has a
\* green slot; so every guess after the first, taken from info_words or from
\* possible_words, is accepted by every Mask of the run
C17_InfoWithinPossible ==
    (last.op \in {"solve_wordle", "solve_all_wordles"} /\ num_guesses >= 1) =>
        /\ (pc \in {"guessing", "RuntimeError"}) =>
              /\ WordSet(info_words) \subseteq WordSet(possible_words)
              /\ (\E k \in DOMAIN masks : HasGreen(masks[k])) => info_words = <<>>
        /\ (pc = "guessing") =>
              /\ \A k \in DOMAIN masks : is_word_accepted(masks[k], guess_word)
              /\ last.informational => guess_word \in WordSet(info_words)

\* the next guess is an informational guess: both lists are long enough and
\* the guess is the first word of info_words
C17_Witness ==
    /\ pc = "guessing"
    /\ num_guesses >= 1
    /\ last.informational
    /\ Len(possible_words) >= MIN_POSSIBLE_WORDS
    /\ Len(info_words) >= MIN_INFO_WORDS
    /\ guess_word = info_words[1]

---------------------------------------------------------------------------
RECURSIVE SolveGuesses(_, _)
\* the words solve_wordle guesses from the state st of its variables on, in
\* the order of the guesses
SolveGuesses(target, st) ==
    IF st.outcome # "guessing"
    THEN <<>>
    ELSE Bind(SolveBody(target, st), LAMBDA after :
             <<st.guess_word>> \o SolveGuesses(target, after))

\* the Mask of a scored wrong guess rejects the guess
OwnMaskRejects ==
    (pc' = "masked" /\ guess_word' # target_word') =>
        ~is_word_accepted(masks'[1], guess_word')

\* no later guess of the run is the word guessed now
NeverGuessedAgain ==
    (pc' = "guessing") =>
        Bind(SolveGuesses(target_word', SolveState'), LAMBDA guesses :
            \A i \in DOMAIN guesses : i > 1 => guesses[i] # guesses[1])

\* a pass of the loop with a wrong guess that is one of possible_words
WrongCandidateGuess ==
    /\ pc = "guessing"
    /\ guess_word # target_word
    /\ guess_word \in WordSet(possible_words)

\* C18: the Mask of a guess and its score against a secret other than the
\* guess rejects the guess; in a run of solve_wordle no word is guessed
\* twice; and after every wrong guess that was one of possible_words,
\* possible_words is shorter than before
C18_GuessesMakeProgress ==
    [][/\ OwnMaskRejects
       /\ NeverGuessedAgain
       /\ (WrongCandidateGuess => Len(possible_words') < Len(possible_words))]_vars

---------------------------------------------------------------------------
\* C19: a suggest command, solve or info, leaves every Mask of the prompt's
\* list as it was, so the Masks that list-guesses prints and the Masks a
\* later suggest filters with are those the add commands since the last
\* reset have built
C19_SuggestKeepsMasks ==
    last.op = "suggest" => masks = last.masks_before

---------------------------------------------------------------------------
(* from_wordle_results on every word and result, and a caller who merges   *)
(* Masks of results that are not the results of one secret.                *)

\* the pairs of MaskInputs, a guess with a yellow and a capped letter, and a
\* guess all black
MergeInputs ==
    MaskInputs \cup
    { <<(<<"a", "a", "b", "b", "b">>), (<<"y", "b", "b", "b", "b">>)>>,
      <<(<<"a", "c", "c", "c", "c">>), (<<"b", "b", "b", "b", "b">>)>> }

InitMerge == InitFrom \/ InitMask

NextMerge ==
    \/ FromWordleResults
    \/ \E input \in MergeInputs : NewMask(input)
    \/ \E i, j \in DOMAIN masks : AddMasks(i, j)

SpecMerge == InitMerge /\ [][NextMerge]_vars

\* a Mask that requires a letter, or caps it, and bans it too
LetterContradiction(mask) ==
    \/ mask.correct_letters \cap mask.incorrect_globals # {}
    \/ DOMAIN mask.max_occurrences \cap mask.incorrect_globals # {}

\* C20: no Mask that from_wordle_results builds, and no Mask that merges of
\* such Masks yield, holds a letter in correct_letters and in
\* incorrect_globals, or caps a letter of incorrect_globals
C20_NoLetterContradiction ==
    \A k \in DOMAIN masks : ~LetterContradiction(masks[k])

=============================================================================
